---- MODULE Spec2Model ----
(***************************************************************************)
(* State-machine model of the blog API backend: the Express routes of      *)
(* routes/auth.routes.js and routes/blog.routes.js, their middlewares      *)
(* (protect, checkRole, multer upload) and their controllers and services. *)
(*                                                                         *)
(* A request occupies a slot of `req`; each of its steps is one action,    *)
(* and a step ends where the code awaits the store or the file system, so  *)
(* that requests interleave exactly where Node.js lets them.               *)
(*                                                                         *)
(* Encodings.  Usernames, emails, plaintext secrets, reset PINs, file      *)
(* names and times are naturals; 0 stands for undefined where a field may  *)
(* be absent.  Times are counted in hours.  A bcrypt hash of secret p is   *)
(* p + HashTag, so a hash never equals a plaintext.  Role names are        *)
(* sequences of characters, because checkRole is called with a string on   *)
(* two routes and String.prototype.includes is a substring test.           *)
(***************************************************************************)
EXTENDS Integers, Sequences, FiniteSets, TLC

(* ------------------------------ bounds --------------------------------- *)
\* file names multer can hand out (uploads that carry a file)
MaxFiles == 3
\* blog documents that can ever be created
MaxBlogs == 1
\* user documents that can ever exist (seeded ones included)
MaxUsers == 2
\* the clock stops advancing here (reset-token specification)
MaxTime == 2
\* the clock stops advancing here (specification of concurrent requests)
MaxRaceTime == 1
\* the clock stops advancing here (gate specification)
MaxGateTime == 25
\* session tokens that can be issued in the gate specification
MaxTokens == 2

\* request slots: a specification runs requests one at a time or two at once
OneSlot == {1}
TwoSlots == {1, 2}
\* values a request body can carry
Emails == {1, 2}
Passwords == {1, 2}
Pins == {1, 2}
Phones == {1}

(* --------------------------- program constants ------------------------- *)
\* "default-avatar.png", the placeholder avatar of register
DefaultAvatar == 0
\* req.file is undefined
NoFile == -1
\* Date.now() + 3600000: one hour
ResetPasswordExpire == 1
\* expiresIn: "1d"
JwtExpiresIn == 24
\* expires: new Date(Date.now() + 30 * 24 * 60 * 60 * 1000): thirty days
CookieExpire == 720
\* bcrypt.genSalt(10) / bcrypt.hash: tag that tells a hash from a plaintext
HashTag == 10

RoleUser == <<"u", "s", "e", "r">>
RoleModerator == <<"m", "o", "d", "e", "r", "a", "t", "o", "r">>
RoleAdmin == <<"a", "d", "m", "i", "n">>
\* enum: ["user", "moderator", "admin"]
Roles == {RoleUser, RoleModerator, RoleAdmin}

VARIABLES
    users,      \* the users collection: _id -> document
    blogs,      \* the blogs collection: _id -> document
    disk,       \* names of the files present in uploads/
    now,        \* Date.now(), in hours
    req,        \* the requests in flight: slot -> request context
    issued,     \* session tokens signed so far by generateToken
    nextUserId, \* the _id the next created user gets
    nextBlogId, \* the _id the next created blog gets
    nextFile    \* the next unique file name of multer's filename()

vars == <<users, blogs, disk, now, req, issued, nextUserId, nextBlogId,
          nextFile>>


(* ------------------------- library behaviour --------------------------- *)
\* bcrypt.hash(secret, salt): one-way, never the plaintext itself
Hash(p) == p + HashTag

\* userSchema.methods.matchPassword: bcrypt.compare(enteredPassword, this.password)
matchPassword(entered, stored) == Hash(entered) = stored

\* variant: the hook stores the secret as it was given
PreSavePlain(modified, password) == password

\* variant: the hook hashes the secret on every save
PreSaveAlways(modified, password) == Hash(password)

\* userSchema.pre("save"): the secret is hashed only when the path is modified
PreSave(modified, password) == IF modified THEN Hash(password) ELSE password

\* jwt.sign({ id }, secret, { expiresIn: "1d" }) at time t
generateToken(id, t) == [id |-> id, iat |-> t, sig |-> "ok"]

\* no jwt cookie on the request
NoCookie == [id |-> 0, iat |-> 0, sig |-> "none"]

\* a token with a flipped bit: the signature no longer matches
Tamper(tok) == [tok EXCEPT !.sig = "bad"]

\* variant: a token is accepted for half a day only
JwtVerifyHalfDay(tok, t) == tok.sig = "ok" /\ 2 * (t - tok.iat) < JwtExpiresIn

\* variant: a token is accepted for as long as its cookie lives
JwtVerifyCookieLifetime(tok, t) == tok.sig = "ok" /\ t < tok.iat + CookieExpire

\* the browser still sends the cookie that sendTokenResponse set with tok
CookieHeld(tok, t) == t < tok.iat + CookieExpire

\* jwt.verify(token, secret): signature first, then exp = iat + 1d
JwtVerify(tok, t) == tok.sig = "ok" /\ t < tok.iat + JwtExpiresIn

\* variant: a character in common is enough
SharesCharacter(needle, hay) ==
    \E i \in 1..Len(needle), j \in 1..Len(hay) : needle[i] = hay[j]

\* String.prototype.includes: needle occurs in hay as a substring
IsSubstring(needle, hay) ==
    \E i \in 0..(Len(hay) - Len(needle)) :
        \A j \in 1..Len(needle) : hay[i + j] = needle[j]

\* allowedRoles.includes(role): substring test on a string, membership on an array
Includes(allowed, role) ==
    IF allowed.isString
    THEN IsSubstring(role, allowed.str)
    ELSE \E i \in 1..Len(allowed.arr) : allowed.arr[i] = role

\* fs.remove(path): removes the file, no error when it is already gone
fsRemove(d, f) == d \ {f}

\* variant: the catch block answers without removing the upload
CleanupSkipped(d, file) == d

\* the guard of the catch blocks: if (req.file) await fs.remove(req.file.path)
CleanupUpload(d, file) == IF file # NoFile THEN fsRemove(d, file) ELSE d

(* ------------------------------ routing -------------------------------- *)
\* checkRole("admin") on the user routes, checkRole(["admin","moderator"]) on the blog routes
AllowedRoles(route) ==
    IF route \in {"getallusers", "remove"}
    THEN [isString |-> TRUE, str |-> RoleAdmin, arr |-> <<>>]
    ELSE [isString |-> FALSE, str |-> <<>>, arr |-> <<RoleAdmin, RoleModerator>>]

\* the first middleware or handler of each route
FirstPc(route) ==
    CASE route = "register" -> "upload"
      [] route = "login" -> "loginUser"
      [] route = "forgotpassword" -> "forgot.findOne"
      [] route = "resetpassword" -> "reset.findOne"
      [] route = "logout" -> "logout"
      [] OTHER -> "protect"

\* variant: upload.single is mounted right after protect on every route
AfterProtectUploadFirst(route) == "upload"

\* what follows protect: upload on PUT /profile, checkRole elsewhere
AfterProtect(route) == IF route = "profile" THEN "upload" ELSE "checkRole"

\* what follows checkRole
AfterCheckRole(route) ==
    CASE route = "getallusers" -> "getAllUsers"
      [] route = "remove" -> "remove.findById"
      [] route = "deleteBlog" -> "deleteBlog.findById"
      [] OTHER -> "upload"

\* what follows upload.single(...)
AfterUpload(route) ==
    CASE route = "register" -> "register.findOne"
      [] route = "profile" -> "profile.findById"
      [] route = "createBlog" -> "createBlog"
      [] OTHER -> "updateBlog.findById"

(* --------------------------- request context --------------------------- *)
\* a free slot: no request
IdleReq ==
    [route |-> "idle", pc |-> "idle", cookie |-> NoCookie,
     userId |-> 0, userRole |-> <<>>,
     hasFile |-> FALSE, file |-> NoFile,
     username |-> 0, email |-> 0, password |-> 0, token |-> 0, phone |-> 0,
     role |-> <<>>, id |-> 0,
     docId |-> 0, docPic |-> NoFile, docToken |-> 0, docExpire |-> 0,
     pin |-> 0, expire |-> 0,
     wrote |-> "none", removeFailed |-> FALSE,
     status |-> 0, message |-> "", json |-> {}]

\* req with the fields of `change` overwritten in slot r
Set(r, change) == [req EXCEPT ![r] = change @@ req[r]]

\* res.status(status).json({ message }): the request is answered; the
\* document the service had loaded is out of scope
Respond(r, status, message, change) ==
    Set(r, [pc |-> "done", status |-> status, message |-> message] @@ change @@
           [docToken |-> 0, docExpire |-> 0, expire |-> 0])

\* requests that still have an upload, a user creation or a blog creation ahead
Pending(route, withFile) ==
    Cardinality({s \in DOMAIN req :
        /\ req[s].pc \notin {"idle", "done"}
        /\ IF withFile
           THEN req[s].hasFile /\ req[s].file = NoFile
           ELSE req[s].route = route})

\* a request arrives on a route with the given cookie, file and body
BeginRequest(r, route, cookie, hasFile, body) ==
    /\ req[r].pc = "idle"
    /\ hasFile => nextFile + Pending(route, TRUE) <= MaxFiles
    /\ route = "register" => nextUserId + Pending(route, FALSE) <= MaxUsers
    /\ route = "createBlog" => nextBlogId + Pending(route, FALSE) <= MaxBlogs
    /\ route = "login" => Cardinality(issued) + Pending(route, FALSE) < MaxTokens
    /\ req' = [req EXCEPT ![r] =
                 [route |-> route, pc |-> FirstPc(route), cookie |-> cookie,
                  hasFile |-> hasFile] @@ body @@ IdleReq]
    /\ UNCHANGED <<users, blogs, disk, now, issued, nextUserId, nextBlogId,
                   nextFile>>

\* the response has been sent; the slot is free again
Finish(r) ==
    /\ req[r].pc = "done"
    /\ req' = [req EXCEPT ![r] = IdleReq]
    /\ UNCHANGED <<users, blogs, disk, now, issued, nextUserId, nextBlogId,
                   nextFile>>

(* ------------------------------ middlewares ---------------------------- *)
\* protect: cookie -> req.user
Protect(r) ==
    /\ req[r].pc = "protect"
    /\ LET tok == req[r].cookie IN
       IF tok = NoCookie
       THEN req' = Respond(r, 401, "Not authorized: no token", << >>)
       ELSE IF ~JwtVerify(tok, now)
       THEN req' = Respond(r, 401, "Not authorized: invalid token", << >>)
       ELSE IF tok.id \in DOMAIN users
       THEN req' = Set(r, [pc |-> AfterProtect(req[r].route), userId |-> tok.id,
                           userRole |-> users[tok.id].role])
       ELSE req' = Set(r, [pc |-> AfterProtect(req[r].route), userId |-> 0,
                           userRole |-> <<>>])
    /\ UNCHANGED <<users, blogs, disk, now, issued, nextUserId, nextBlogId,
                   nextFile>>

\* variant: any authenticated user passes, whatever the role
RoleAllowedAnyRole(allowed, userId, userRole) == userId # 0

\* variant: the test of req.user is dropped, the role alone decides
RoleAllowedWithoutUser(allowed, userId, userRole) == Includes(allowed, userRole)

\* the decision of the middleware checkRole(allowedRoles) builds
RoleAllowed(allowed, userId, userRole) ==
    userId # 0 /\ Includes(allowed, userRole)

\* checkRole(allowedRoles): next() or 403
CheckRole(r) ==
    /\ req[r].pc = "checkRole"
    /\ IF RoleAllowed(AllowedRoles(req[r].route), req[r].userId, req[r].userRole)
       THEN req' = Set(r, [pc |-> AfterCheckRole(req[r].route)])
       ELSE req' = Respond(r, 403, "Access denied: Insufficient permissions", << >>)
    /\ UNCHANGED <<users, blogs, disk, now, issued, nextUserId, nextBlogId,
                   nextFile>>

\* upload.single(field): multer stores the file, if any, under a unique name
Upload(r) ==
    /\ req[r].pc = "upload"
    /\ IF req[r].hasFile
       THEN /\ req' = Set(r, [pc |-> AfterUpload(req[r].route), file |-> nextFile])
            /\ disk' = disk \cup {nextFile}
            /\ nextFile' = nextFile + 1
       ELSE /\ req' = Set(r, [pc |-> AfterUpload(req[r].route)])
            /\ UNCHANGED <<disk, nextFile>>
    /\ UNCHANGED <<users, blogs, now, issued, nextUserId, nextBlogId>>


(* ------------------------------- the store ----------------------------- *)
\* variant: no unique index on username
UsernameNeverTaken(name, self) == FALSE

\* unique: true on username (user.model.js): another document holds the name
UsernameTaken(name, self) ==
    \E i \in DOMAIN users \ {self} : users[i].username = name

\* variant: no unique index on email
EmailNeverTaken(email, self) == FALSE

\* unique: true on email (user.model.js): another document holds the address
EmailTaken(email, self) ==
    \E i \in DOMAIN users \ {self} : users[i].email = email

\* variant: the role of the request body reaches User.create
RegisterRoleFromBody(bodyRole) == IF bodyRole # <<>> THEN bodyRole ELSE RoleUser

\* registerUser hands username, email, password and profilePicture to
\* User.create and nothing else of the body: the role is the schema default
RegisterRole(bodyRole) == RoleUser

\* a user document as User.create stores it (role and the reset fields at their defaults)
NewUser(username, email, password, profilePicture) ==
    [username |-> username, email |-> email, password |-> PreSave(TRUE, password),
     profilePicture |-> profilePicture, phone |-> 0, role |-> RoleUser,
     resetPasswordToken |-> 0, resetPasswordExpire |-> 0]

\* variant: the deletion takes the documents created before id along
WithoutUpTo(coll, id) == [i \in {j \in DOMAIN coll : j > id} |-> coll[i]]

\* the collection without document id (findByIdAndDelete)
Without(coll, id) == [i \in DOMAIN coll \ {id} |-> coll[i]]

\* the body sendTokenResponse sends: _id, username, email, profilePicture, role
sendTokenResponse(id, user) ==
    [id |-> id, username |-> user.username, email |-> user.email,
     profilePicture |-> user.profilePicture, role |-> user.role]

\* variant: the projection is dropped and the whole document is returned
SelectAll(doc) == doc

\* .select("-password"): the document without its secret
SelectMinusPassword(doc) == [f \in DOMAIN doc \ {"password"} |-> doc[f]]

(* ---------------------- PUT /profile: updateUserProfile ---------------- *)
\* variant: the old avatar is never removed
KeepOldAvatar(pic) == FALSE

\* variant: every avatar a principal references is removed, the placeholder too
RemoveAnyOldAvatar(pic) == pic # NoFile

\* currentUser.profilePicture && currentUser.profilePicture !== "default-avatar.png"
ShouldRemoveOldAvatar(pic) == pic # NoFile /\ pic # DefaultAvatar

\* const currentUser = await User.findById(userId); the updates object is built
ProfileFindById(r) ==
    /\ req[r].pc = "profile.findById"
    /\ IF req[r].userId = 0
       THEN \* req.user is null: req.user._id throws inside the try
            req' = Set(r, [pc |-> "profile.catch", message |-> "TypeError"])
       ELSE IF req[r].userId \notin DOMAIN users
       THEN req' = Respond(r, 404, "User not found", << >>)
       ELSE LET pic == users[req[r].userId].profilePicture IN
            req' = Set(r, [docId |-> req[r].userId, docPic |-> pic,
                           pc |-> IF req[r].file # NoFile /\ ShouldRemoveOldAvatar(pic)
                                  THEN "profile.removeOld"
                                  ELSE "profile.update"])
    /\ UNCHANGED <<users, blogs, disk, now, issued, nextUserId, nextBlogId,
                   nextFile>>

\* if (await fs.pathExists(oldPath)) await fs.remove(oldPath)
ProfileRemoveOld(r) ==
    /\ req[r].pc = "profile.removeOld"
    /\ disk' = fsRemove(disk, req[r].docPic)
    /\ req' = Set(r, [pc |-> "profile.update"])
    /\ UNCHANGED <<users, blogs, now, issued, nextUserId, nextBlogId,
                   nextFile>>

\* variant: the whole request body is handed to the store
ProfileUpdatesFromBody(username, phone, password, role, file) ==
    [username |-> username, phone |-> phone, password |-> password,
     role |-> role, profilePicture |-> file]

\* variant: profilePicture is assigned whether or not a file came
ProfileUpdatesAlwaysPicture(username, phone, password, role, file) ==
    [username |-> username, phone |-> phone, password |-> 0, role |-> <<>>,
     profilePicture |-> IF file # NoFile THEN file ELSE DefaultAvatar]

\* the updates object of the controller: username and phone are copied from
\* the body when present, profilePicture is set when a file came, and nothing
\* else of the body is copied (0, <<>> and NoFile: the key is absent)
ProfileUpdates(username, phone, password, role, file) ==
    [username |-> username, phone |-> phone, password |-> 0, role |-> <<>>,
     profilePicture |-> file]

\* the document after findByIdAndUpdate(userId, updates): every key of updates
\* is set as given (no save hook runs), the other fields are left alone
ApplyProfileUpdates(doc, updates) ==
    [doc EXCEPT
        !.username = IF updates.username # 0 THEN updates.username ELSE @,
        !.phone = IF updates.phone # 0 THEN updates.phone ELSE @,
        !.password = IF updates.password # 0 THEN updates.password ELSE @,
        !.role = IF updates.role # <<>> THEN updates.role ELSE @,
        !.profilePicture =
            IF updates.profilePicture # NoFile THEN updates.profilePicture ELSE @]

\* authService.updateUserProfile: findByIdAndUpdate with runValidators, then res.json
ProfileUpdate(r) ==
    /\ req[r].pc = "profile.update"
    /\ \E storeError \in BOOLEAN :
        LET id == req[r].userId IN
        IF id \notin DOMAIN users
        THEN /\ req' = Set(r, [pc |-> "profile.catch", wrote |-> "notfound",
                               message |-> "User not found"])
             /\ UNCHANGED users
        ELSE IF storeError \/ (req[r].username # 0 /\ UsernameTaken(req[r].username, id))
        THEN /\ req' = Set(r, [pc |-> "profile.catch", wrote |-> "failed",
                               message |-> IF storeError THEN "write failed"
                                           ELSE "E11000 duplicate key error"])
             /\ UNCHANGED users
        ELSE /\ users' = [users EXCEPT ![id] =
                            ApplyProfileUpdates(@,
                                ProfileUpdates(req[r].username, req[r].phone,
                                               req[r].password, req[r].role,
                                               req[r].file))]
             /\ req' = Respond(r, 200, "",
                               [wrote |-> "ok",
                                json |-> {SelectMinusPassword(users'[id])}])
    /\ UNCHANGED <<blogs, disk, now, issued, nextUserId, nextBlogId, nextFile>>

\* catch: if (req.file && req.file.path) await fs.remove(req.file.path); 400
ProfileCatch(r) ==
    /\ req[r].pc = "profile.catch"
    /\ disk' = CleanupUpload(disk, req[r].file)
    /\ req' = Respond(r, 400, req[r].message, << >>)
    /\ UNCHANGED <<users, blogs, now, issued, nextUserId, nextBlogId,
                   nextFile>>

(* --------------------------- blogs: create, update --------------------- *)
\* controller createBlog: blogService.createBlog(blogData), 201
CreateBlog(r) ==
    /\ req[r].pc = "createBlog"
    /\ \E storeError \in BOOLEAN :
        IF req[r].file = NoFile
        THEN /\ req' = Respond(r, 400, "Image is required", << >>)
             /\ UNCHANGED <<blogs, nextBlogId>>
        ELSE IF storeError
        THEN /\ req' = Set(r, [pc |-> "createBlog.catch", wrote |-> "failed",
                               message |-> "write failed"])
             /\ UNCHANGED <<blogs, nextBlogId>>
        ELSE /\ blogs' = blogs @@ (nextBlogId :>
                              [image |-> req[r].file, author |-> req[r].userId])
             /\ nextBlogId' = nextBlogId + 1
             /\ req' = Respond(r, 201, "", [wrote |-> "ok", docId |-> nextBlogId])
    /\ UNCHANGED <<users, disk, now, issued, nextUserId, nextFile>>

\* catch of createBlog: if (req.file) await fs.remove(req.file.path); 400
CreateBlogCatch(r) ==
    /\ req[r].pc = "createBlog.catch"
    /\ disk' = CleanupUpload(disk, req[r].file)
    /\ req' = Respond(r, 400, req[r].message, << >>)
    /\ UNCHANGED <<users, blogs, now, issued, nextUserId, nextBlogId,
                   nextFile>>

\* if (newImageFilename) { if (blog.image) ... remove the old image }
ShouldRemoveOldImage(file, image) == file # NoFile /\ image # NoFile

\* service updateBlog: const blog = await Blog.findById(id)
UpdateBlogFindById(r) ==
    /\ req[r].pc = "updateBlog.findById"
    /\ IF req[r].id \notin DOMAIN blogs
       THEN req' = Set(r, [pc |-> "updateBlog.catch", wrote |-> "notfound",
                           message |-> "Blog not found"])
       ELSE LET image == blogs[req[r].id].image IN
            req' = Set(r, [docId |-> req[r].id, docPic |-> image,
                           pc |-> IF ShouldRemoveOldImage(req[r].file, image)
                                  THEN "updateBlog.removeOld"
                                  ELSE "updateBlog.save"])
    /\ UNCHANGED <<users, blogs, disk, now, issued, nextUserId, nextBlogId,
                   nextFile>>

\* if (await fs.pathExists(oldPath)) await fs.remove(oldPath)
UpdateBlogRemoveOld(r) ==
    /\ req[r].pc = "updateBlog.removeOld"
    /\ disk' = fsRemove(disk, req[r].docPic)
    /\ req' = Set(r, [pc |-> "updateBlog.save"])
    /\ UNCHANGED <<users, blogs, now, issued, nextUserId, nextBlogId,
                   nextFile>>

\* Object.assign(blog, updateData); await blog.save(); res.json(updatedBlog)
\* (save() writes the modified paths of the loaded document and throws
\* DocumentNotFoundError when the document is gone)
UpdateBlogSave(r) ==
    /\ req[r].pc = "updateBlog.save"
    /\ \E storeError \in BOOLEAN :
        LET id == req[r].docId IN
        IF id \notin DOMAIN blogs \/ storeError
        THEN /\ req' = Set(r, [pc |-> "updateBlog.catch", wrote |-> "failed",
                               message |-> "write failed"])
             /\ UNCHANGED blogs
        ELSE /\ blogs' = [blogs EXCEPT ![id].image =
                            IF req[r].file # NoFile THEN req[r].file ELSE @]
             /\ req' = Respond(r, 200, "", [wrote |-> "ok"])
    /\ UNCHANGED <<users, disk, now, issued, nextUserId, nextBlogId, nextFile>>

\* catch of updateBlog: if (req.file) await fs.remove(req.file.path); 404 or 400
UpdateBlogCatch(r) ==
    /\ req[r].pc = "updateBlog.catch"
    /\ disk' = CleanupUpload(disk, req[r].file)
    /\ req' = Respond(r, IF req[r].message = "Blog not found" THEN 404 ELSE 400,
                      req[r].message, << >>)
    /\ UNCHANGED <<users, blogs, now, issued, nextUserId, nextBlogId,
                   nextFile>>


(* ------------------------------ blogs: delete -------------------------- *)
\* service deleteBlog: const blog = await Blog.findById(id); "Blog not found"
DeleteBlogFindById(r) ==
    /\ req[r].pc = "deleteBlog.findById"
    /\ IF req[r].id \notin DOMAIN blogs
       THEN req' = Respond(r, 404, "Blog not found", [wrote |-> "notfound"])
       ELSE LET image == blogs[req[r].id].image IN
            req' = Set(r, [docId |-> req[r].id, docPic |-> image,
                           pc |-> IF image # NoFile
                                  THEN "deleteBlog.removeImage"
                                  ELSE "deleteBlog.delete"])
    /\ UNCHANGED <<users, blogs, disk, now, issued, nextUserId, nextBlogId,
                   nextFile>>

\* if (blog.image) { if (await fs.pathExists(imagePath)) await fs.remove(imagePath) }
DeleteBlogRemoveImage(r) ==
    /\ req[r].pc = "deleteBlog.removeImage"
    /\ disk' = fsRemove(disk, req[r].docPic)
    /\ req' = Set(r, [pc |-> "deleteBlog.delete"])
    /\ UNCHANGED <<users, blogs, now, issued, nextUserId, nextBlogId,
                   nextFile>>

\* await Blog.findByIdAndDelete(id); "Blog deleted successfully", or 500
DeleteBlogDelete(r) ==
    /\ req[r].pc = "deleteBlog.delete"
    /\ \E storeError \in BOOLEAN :
        IF storeError
        THEN /\ req' = Respond(r, 500, "write failed", [wrote |-> "failed"])
             /\ UNCHANGED blogs
        ELSE /\ blogs' = Without(blogs, req[r].id)
             /\ req' = Respond(r, 200, "Blog deleted successfully", [wrote |-> "ok"])
    /\ UNCHANGED <<users, disk, now, issued, nextUserId, nextBlogId, nextFile>>

(* ---------------------- POST /register and POST /login ----------------- *)
\* registerUser: const userExists = await User.findOne({ email })
RegisterFindOne(r) ==
    /\ req[r].pc = "register.findOne"
    /\ IF \E i \in DOMAIN users : users[i].email = req[r].email
       THEN req' = Set(r, [pc |-> "register.catch", message |-> "User already exists"])
       ELSE req' = Set(r, [pc |-> "register.create"])
    /\ UNCHANGED <<users, blogs, disk, now, issued, nextUserId, nextBlogId,
                   nextFile>>

\* req.file ? req.file.filename : "default-avatar.png"
PictureName(file) == IF file # NoFile THEN file ELSE DefaultAvatar

\* registerUser: User.create({ username, email, password, profilePicture }),
\* then sendTokenResponse(user, 201, res)
RegisterCreate(r) ==
    /\ req[r].pc = "register.create"
    /\ \E storeError \in BOOLEAN :
        IF \/ storeError
           \/ EmailTaken(req[r].email, 0)
           \/ UsernameTaken(req[r].username, 0)
        THEN /\ req' = Set(r, [pc |-> "register.catch", wrote |-> "failed",
                               message |-> IF storeError THEN "write failed"
                                           ELSE "E11000 duplicate key error"])
             /\ UNCHANGED <<users, nextUserId, issued>>
        ELSE /\ users' = users @@ (nextUserId :>
                             [NewUser(req[r].username, req[r].email, req[r].password,
                                      PictureName(req[r].file))
                                 EXCEPT !.role = RegisterRole(req[r].role)])
             /\ nextUserId' = nextUserId + 1
             /\ issued' = issued \cup {generateToken(nextUserId, now)}
             /\ req' = Respond(r, 201, "",
                               [wrote |-> "ok", docId |-> nextUserId,
                                json |-> {sendTokenResponse(nextUserId,
                                                            users'[nextUserId])}])
    /\ UNCHANGED <<blogs, disk, now, nextBlogId, nextFile>>

\* jwt.sign when process.env.JWT_SECRET is not set
SignError == "secretOrPrivateKey must have a value"

\* register on a server started without JWT_SECRET: registerUser creates the
\* record as in RegisterCreate, then generateToken throws inside
\* sendTokenResponse, which is called within the try of register: no token is
\* signed, nothing is sent, and the catch block is entered with the record
\* in the store
RegisterCreateNoSecret(r) ==
    /\ req[r].pc = "register.create"
    /\ \E storeError \in BOOLEAN :
        IF \/ storeError
           \/ EmailTaken(req[r].email, 0)
           \/ UsernameTaken(req[r].username, 0)
        THEN /\ req' = Set(r, [pc |-> "register.catch", wrote |-> "failed",
                               message |-> IF storeError THEN "write failed"
                                           ELSE "E11000 duplicate key error"])
             /\ UNCHANGED <<users, nextUserId>>
        ELSE /\ users' = users @@ (nextUserId :>
                             [NewUser(req[r].username, req[r].email, req[r].password,
                                      PictureName(req[r].file))
                                 EXCEPT !.role = RegisterRole(req[r].role)])
             /\ nextUserId' = nextUserId + 1
             /\ req' = Set(r, [pc |-> "register.catch", wrote |-> "ok",
                               docId |-> nextUserId, message |-> SignError])
    /\ UNCHANGED <<blogs, disk, now, issued, nextBlogId, nextFile>>

\* catch of register: if (req.file && req.file.path) await fs.remove(...); 400
RegisterCatch(r) ==
    /\ req[r].pc = "register.catch"
    /\ disk' = CleanupUpload(disk, req[r].file)
    /\ req' = Respond(r, 400, req[r].message, << >>)
    /\ UNCHANGED <<users, blogs, now, issued, nextUserId, nextBlogId,
                   nextFile>>

\* loginUser(email, password): findOne({ email }).select("+password"), then
\* matchPassword; the _id of the user logged in, or 0 for "Invalid email or password"
LoginFind(email, password) ==
    LET found == {i \in DOMAIN users : users[i].email = email} IN
    IF found = {} THEN 0
    ELSE LET id == CHOOSE i \in found : TRUE IN
         IF matchPassword(password, users[id].password) THEN id ELSE 0

\* if (!user) throw new Error("Invalid email or password")
NoSuchEmailError == "Invalid email or password"

\* if (!isMatch) throw new Error("Invalid email or password")
MismatchError == "Invalid email or password"

\* variant: the two failures of loginUser are told apart
LoginErrorTelling(email, password) ==
    IF \A i \in DOMAIN users : users[i].email # email
    THEN "User not found"
    ELSE "Invalid email or password"

\* the error loginUser throws when LoginFind fails: one throw per cause
LoginError(email, password) ==
    IF \A i \in DOMAIN users : users[i].email # email
    THEN NoSuchEmailError
    ELSE MismatchError

\* controller login: loginUser, then sendTokenResponse(user, 200, res) or 401
LoginUser(r) ==
    /\ req[r].pc = "loginUser"
    /\ LET id == LoginFind(req[r].email, req[r].password) IN
       IF id = 0
       THEN /\ req' = Respond(r, 401, LoginError(req[r].email, req[r].password),
                              << >>)
            /\ UNCHANGED issued
       ELSE /\ req' = Respond(r, 200, "",
                              [docId |-> id,
                               json |-> {sendTokenResponse(id, users[id])}])
            /\ issued' = issued \cup {generateToken(id, now)}
    /\ UNCHANGED <<users, blogs, disk, now, nextUserId, nextBlogId, nextFile>>

\* controller logout: the cookie "jwt" is replaced by an empty one that has
\* expired; nothing is stored on the server, the signed token stays as it is
Logout(r) ==
    /\ req[r].pc = "logout"
    /\ req' = Respond(r, 200, "Logged out successfully", << >>)
    /\ UNCHANGED <<users, blogs, disk, now, issued, nextUserId, nextBlogId,
                   nextFile>>

(* --------------- POST /forgotpassword and POST /resetpassword ---------- *)
\* forgotPassword: findOne({ email }); the PIN and its expiry are computed
\* (crypto.randomInt, Date.now() + 3600000) and assigned to the loaded document;
\* `pins` are the values crypto.randomInt can return
ForgotFindOne(r, pins) ==
    /\ req[r].pc = "forgot.findOne"
    /\ \E pin \in pins :
        LET found == {i \in DOMAIN users : users[i].email = req[r].email} IN
        IF found = {}
        THEN req' = Respond(r, 404, "User not found", << >>)
        ELSE LET id == CHOOSE i \in found : TRUE IN
             req' = Set(r, [pc |-> "forgot.save", docId |-> id,
                            docToken |-> users[id].resetPasswordToken,
                            docExpire |-> users[id].resetPasswordExpire,
                            pin |-> pin, expire |-> now + ResetPasswordExpire])
    /\ UNCHANGED <<users, blogs, disk, now, issued, nextUserId, nextBlogId,
                   nextFile>>

\* variant: no assignment marks a path modified, save() writes nothing
NeverModified(loaded, assigned) == FALSE

\* Mongoose marks a path modified only when the assigned value differs from
\* the loaded one; save() then writes exactly the modified paths
Modified(loaded, assigned) == loaded # assigned

\* forgotPassword: await user.save(); the controller answers with the PIN
\* (a save() with no modified path sends nothing to the store and succeeds;
\* the pre-save hook runs with the secret not modified)
ForgotSave(r) ==
    /\ req[r].pc = "forgot.save"
    /\ \E storeError \in BOOLEAN :
        LET id == req[r].docId
            writesToken == Modified(req[r].docToken, req[r].pin)
            writesExpire == Modified(req[r].docExpire, req[r].expire)
        IN
        IF (writesToken \/ writesExpire) /\ (id \notin DOMAIN users \/ storeError)
        THEN /\ req' = Respond(r, 500, "write failed", [wrote |-> "failed"])
             /\ UNCHANGED users
        ELSE /\ users' = IF id \in DOMAIN users
                         THEN [users EXCEPT
                                 ![id].password = PreSave(FALSE, @),
                                 ![id].resetPasswordToken =
                                     IF writesToken THEN req[r].pin ELSE @,
                                 ![id].resetPasswordExpire =
                                     IF writesExpire THEN req[r].expire ELSE @]
                         ELSE users
             /\ req' = Respond(r, 200, "Email sent successfully",
                               [wrote |-> "ok", json |-> {[pin |-> req[r].pin]}])
    /\ UNCHANGED <<blogs, disk, now, issued, nextUserId, nextBlogId, nextFile>>

\* variant: the query drops the token, any open window matches
ResetMatchAnyToken(doc, token, t) == doc.resetPasswordExpire > t

\* variant: $gte instead of $gt, a window still open at its expiry instant
ResetMatchAtExpiry(doc, token, t) ==
    doc.resetPasswordToken = token /\ doc.resetPasswordExpire >= t

\* the query of resetPassword:
\* { resetPasswordToken: token, resetPasswordExpire: { $gt: Date.now() } }
ResetMatch(doc, token, t) ==
    doc.resetPasswordToken = token /\ doc.resetPasswordExpire > t

\* resetPassword: const user = await User.findOne({...}); 400 when none matches
\* (findOne has no sort: any matching document may be the one returned)
ResetFindOne(r) ==
    /\ req[r].pc = "reset.findOne"
    /\ LET found == {i \in DOMAIN users : ResetMatch(users[i], req[r].token, now)} IN
       IF found = {}
       THEN req' = Respond(r, 400, "Invalid or expired PIN", << >>)
       ELSE \E id \in found :
               req' = Set(r, [pc |-> "reset.save", docId |-> id,
                              docToken |-> users[id].resetPasswordToken,
                              docExpire |-> users[id].resetPasswordExpire])
    /\ UNCHANGED <<users, blogs, disk, now, issued, nextUserId, nextBlogId,
                   nextFile>>

\* resetPassword: password, token and expiry are assigned; await user.save()
\* (the secret is not selected by the query, so assigning it modifies the path)
ResetSave(r) ==
    /\ req[r].pc = "reset.save"
    /\ \E storeError \in BOOLEAN :
        LET id == req[r].docId IN
        IF id \notin DOMAIN users \/ storeError
        THEN /\ req' = Respond(r, 400, "write failed", [wrote |-> "failed"])
             /\ UNCHANGED users
        ELSE /\ users' = [users EXCEPT
                    ![id].password = PreSave(TRUE, req[r].password),
                    ![id].resetPasswordToken =
                        IF Modified(req[r].docToken, 0) THEN 0 ELSE @,
                    ![id].resetPasswordExpire =
                        IF Modified(req[r].docExpire, 0) THEN 0 ELSE @]
             /\ req' = Respond(r, 200, "Password reset successful", [wrote |-> "ok"])
    /\ UNCHANGED <<blogs, disk, now, issued, nextUserId, nextBlogId, nextFile>>

(* ------------------- DELETE /:id and GET /getallusers ------------------ *)
\* deleteUser: const user = await User.findById(id); 404 when absent
RemoveFindById(r) ==
    /\ req[r].pc = "remove.findById"
    /\ IF req[r].id \notin DOMAIN users
       THEN req' = Respond(r, 404, "User not found", << >>)
       ELSE req' = Set(r, [pc |-> "remove.delete", docId |-> req[r].id,
                           docPic |-> users[req[r].id].profilePicture])
    /\ UNCHANGED <<users, blogs, disk, now, issued, nextUserId, nextBlogId,
                   nextFile>>

\* deleteUser: await User.findByIdAndDelete(id); "User deleted successfully"
RemoveDelete(r) ==
    /\ req[r].pc = "remove.delete"
    /\ \E storeError \in BOOLEAN :
        IF storeError
        THEN /\ req' = Respond(r, 404, "write failed", [wrote |-> "failed"])
             /\ UNCHANGED users
        ELSE /\ users' = Without(users, req[r].id)
             /\ req' = Respond(r, 200, "User deleted successfully", [wrote |-> "ok"])
    /\ UNCHANGED <<blogs, disk, now, issued, nextUserId, nextBlogId, nextFile>>

\* controller getAllUsers: res.json(await User.find().select("-password"))
GetAllUsers(r) ==
    /\ req[r].pc = "getAllUsers"
    /\ req' = Respond(r, 200, "",
                      [json |-> {SelectMinusPassword(users[i]) : i \in DOMAIN users}])
    /\ UNCHANGED <<users, blogs, disk, now, issued, nextUserId, nextBlogId,
                   nextFile>>

(* ----------------------- fs.remove that rejects ------------------------ *)
\* the catch blocks that remove the upload before they answer
CatchPcs == {"register.catch", "profile.catch", "createBlog.catch",
             "updateBlog.catch"}

\* updateUserProfile: await fs.remove(oldPath) rejects (EPERM, EBUSY, ...)
\* inside the try block: control goes to the catch block with the error of
\* the file system, before the store is written
ProfileRemoveOldFails(r) ==
    /\ req[r].pc = "profile.removeOld"
    /\ req' = Set(r, [pc |-> "profile.catch", removeFailed |-> TRUE,
                      message |-> "remove failed"])
    /\ UNCHANGED <<users, blogs, disk, now, issued, nextUserId, nextBlogId,
                   nextFile>>

\* service updateBlog: await fs.remove(oldPath) rejects; the error reaches the
\* catch block of the controller before blog.save() is called
UpdateBlogRemoveOldFails(r) ==
    /\ req[r].pc = "updateBlog.removeOld"
    /\ req' = Set(r, [pc |-> "updateBlog.catch", removeFailed |-> TRUE,
                      message |-> "remove failed"])
    /\ UNCHANGED <<users, blogs, disk, now, issued, nextUserId, nextBlogId,
                   nextFile>>

\* await fs.remove(req.file.path) rejects inside a catch block: the promise of
\* the async handler rejects before res.status(...).json(...) is reached.  No
\* error middleware is installed, so the request is either never answered
\* (Express 4 ignores the promise) or answered 500 by the default error
\* handler (Express 5 forwards the rejection), depending on the version built
CatchRemoveFails(r) ==
    /\ req[r].pc \in CatchPcs
    /\ req[r].file # NoFile
    /\ \/ req' = Set(r, [pc |-> "hung", removeFailed |-> TRUE])
       \/ req' = Respond(r, 500, "remove failed", [removeFailed |-> TRUE])
    /\ UNCHANGED <<users, blogs, disk, now, issued, nextUserId, nextBlogId,
                   nextFile>>

\* the client gives up on a request that is never answered; the slot is free
Abandon(r) ==
    /\ req[r].pc = "hung"
    /\ req' = [req EXCEPT ![r] = IdleReq]
    /\ UNCHANGED <<users, blogs, disk, now, issued, nextUserId, nextBlogId,
                   nextFile>>

(* --------------------------------- time -------------------------------- *)
\* Date.now() advances by d hours, up to the bound `limit`
Tick(d, limit) ==
    /\ now + d <= limit
    /\ now' = now + d
    /\ UNCHANGED <<users, blogs, disk, req, issued, nextUserId, nextBlogId,
                   nextFile>>

(* ------------------------------ initial state -------------------------- *)
\* the accounts present when the server starts: an administrator and a plain
\* user, both registered without a picture
SeedUsers ==
    (1 :> [NewUser(1, 1, 1, DefaultAvatar) EXCEPT !.role = RoleAdmin]) @@
    (2 :> NewUser(2, 2, 2, DefaultAvatar))

\* the store after start-up; `seeds` are the accounts already present,
\* `tokens` the session tokens they hold, and `slots` requests can be in flight
InitWith(seeds, tokens, slots) ==
    /\ users = seeds
    /\ blogs = << >>
    /\ disk = {DefaultAvatar}
    /\ now = 0
    /\ req = [r \in slots |-> IdleReq]
    /\ issued = tokens
    /\ nextUserId = Cardinality(DOMAIN seeds) + 1
    /\ nextBlogId = 1
    /\ nextFile = 1

(* -------------------- specification of the asset life cycle ------------ *)
AssetInit == InitWith(SeedUsers, {generateToken(1, 0)}, TwoSlots)

\* PUT /profile, POST /api/blogs and PUT /api/blogs/:id, with and without a file
AssetBegin(r) ==
    \E cookie \in issued, hasFile \in BOOLEAN :
        \/ \E username \in {0, 2} :
               BeginRequest(r, "profile", cookie, hasFile, [username |-> username])
        \/ BeginRequest(r, "createBlog", cookie, hasFile, << >>)
        \/ \E id \in 1..MaxBlogs :
               BeginRequest(r, "updateBlog", cookie, hasFile, [id |-> id])

AssetNext ==
    \E r \in TwoSlots :
        \/ AssetBegin(r)
        \/ Protect(r)
        \/ CheckRole(r)
        \/ Upload(r)
        \/ ProfileFindById(r)
        \/ ProfileRemoveOld(r)
        \/ ProfileUpdate(r)
        \/ ProfileCatch(r)
        \/ CreateBlog(r)
        \/ CreateBlogCatch(r)
        \/ UpdateBlogFindById(r)
        \/ UpdateBlogRemoveOld(r)
        \/ UpdateBlogSave(r)
        \/ UpdateBlogCatch(r)
        \/ Finish(r)

SpecAsset == AssetInit /\ [][AssetNext]_vars


(* ------------------ specification of the password reset --------------- *)
\* the administrator alone
SeedAdmin == (1 :> SeedUsers[1])

\* one request at a time: register, login, forgotpassword, resetpassword
ResetInit == InitWith(SeedAdmin, {}, OneSlot)

ResetBegin(r) ==
    \/ \E email \in Emails, password \in Passwords :
           BeginRequest(r, "register", NoCookie, FALSE,
                        [username |-> 2, email |-> email, password |-> password])
    \/ \E email \in Emails, password \in Passwords :
           BeginRequest(r, "login", NoCookie, FALSE,
                        [email |-> email, password |-> password])
    \/ \E email \in Emails :
           BeginRequest(r, "forgotpassword", NoCookie, FALSE, [email |-> email])
    \/ \E token \in Pins, password \in Passwords :
           BeginRequest(r, "resetpassword", NoCookie, FALSE,
                        [token |-> token, password |-> password])

ResetNext ==
    \E r \in OneSlot :
        \/ Tick(1, MaxTime)
        \/ ResetBegin(r)
        \/ Upload(r)
        \/ RegisterFindOne(r)
        \/ RegisterCreate(r)
        \/ RegisterCatch(r)
        \/ LoginUser(r)
        \/ ForgotFindOne(r, Pins)
        \/ ForgotSave(r)
        \/ ResetFindOne(r)
        \/ ResetSave(r)
        \/ Finish(r)

SpecReset == ResetInit /\ [][ResetNext]_vars

(* ------------- specification of concurrent requests on the users -------- *)
\* two requests in flight: register, forgotpassword, resetpassword,
\* PUT /profile and DELETE /:id
RaceInit == InitWith(SeedAdmin, {generateToken(1, 0)}, TwoSlots)

RaceBegin(r) ==
    \/ BeginRequest(r, "register", NoCookie, FALSE,
                    [username |-> 2, email |-> 2, password |-> 2])
    \/ \E email \in Emails :
           BeginRequest(r, "forgotpassword", NoCookie, FALSE, [email |-> email])
    \/ BeginRequest(r, "resetpassword", NoCookie, FALSE,
                    [token |-> 1, password |-> 2])
    \/ \E cookie \in issued, phone \in Phones :
           BeginRequest(r, "profile", cookie, FALSE, [phone |-> phone])
    \/ \E cookie \in issued, id \in DOMAIN users :
           BeginRequest(r, "remove", cookie, FALSE, [id |-> id])

RaceNext ==
    \E r \in TwoSlots :
        \/ Tick(1, MaxRaceTime)
        \/ RaceBegin(r)
        \/ Upload(r)
        \/ RegisterFindOne(r)
        \/ RegisterCreate(r)
        \/ RegisterCatch(r)
        \/ ForgotFindOne(r, {1})
        \/ ForgotSave(r)
        \/ ResetFindOne(r)
        \/ ResetSave(r)
        \/ Protect(r)
        \/ CheckRole(r)
        \/ ProfileFindById(r)
        \/ ProfileUpdate(r)
        \/ ProfileCatch(r)
        \/ RemoveFindById(r)
        \/ RemoveDelete(r)
        \/ Finish(r)

SpecRace == RaceInit /\ [][RaceNext]_vars

(* --------------------- specification of the access gate ---------------- *)
\* an administrator, a plain user and a moderator
GateSeeds ==
    SeedUsers @@ (3 :> [NewUser(3, 3, 3, DefaultAvatar) EXCEPT !.role = RoleModerator])

\* nobody is logged in when the server starts
GateInit == InitWith(GateSeeds, {}, OneSlot)

\* the cookies a client can send: none, a token the server signed, or such a
\* token with a bit flipped
Cookies == {NoCookie} \cup issued \cup {Tamper(tok) : tok \in issued}

\* POST /login of each account, and the role-gated routes GET /getallusers,
\* DELETE /:id and POST /api/blogs
GateBegin(r) ==
    \/ \E id \in DOMAIN GateSeeds :
           BeginRequest(r, "login", NoCookie, FALSE,
                        [email |-> id, password |-> id])
    \/ \E cookie \in Cookies :
           BeginRequest(r, "getallusers", cookie, FALSE, << >>)
    \/ \E cookie \in Cookies, id \in DOMAIN GateSeeds :
           BeginRequest(r, "remove", cookie, FALSE, [id |-> id])
    \/ \E cookie \in Cookies, hasFile \in BOOLEAN :
           BeginRequest(r, "createBlog", cookie, hasFile, << >>)

GateNext ==
    \E r \in OneSlot :
        \/ Tick(12, MaxGateTime)
        \/ GateBegin(r)
        \/ LoginUser(r)
        \/ Protect(r)
        \/ CheckRole(r)
        \/ Upload(r)
        \/ GetAllUsers(r)
        \/ RemoveFindById(r)
        \/ RemoveDelete(r)
        \/ CreateBlog(r)
        \/ CreateBlogCatch(r)
        \/ Finish(r)

SpecGate == GateInit /\ [][GateNext]_vars

(* ------------------- specification of the accounts -------------------- *)
\* an empty store; two requests in flight
AccountInit == InitWith(<< >>, {}, TwoSlots)

\* POST /register, POST /login and PUT /profile with a new username; no
\* request carries a file
AccountBegin(r) ==
    \/ \E username \in {1, 2}, email \in Emails, password \in Passwords :
           BeginRequest(r, "register", NoCookie, FALSE,
                        [username |-> username, email |-> email,
                         password |-> password])
    \/ \E email \in Emails, password \in Passwords :
           BeginRequest(r, "login", NoCookie, FALSE,
                        [email |-> email, password |-> password])
    \/ \E cookie \in issued, username \in {1, 2} :
           BeginRequest(r, "profile", cookie, FALSE, [username |-> username])

AccountNext ==
    \E r \in TwoSlots :
        \/ AccountBegin(r)
        \/ Upload(r)
        \/ RegisterFindOne(r)
        \/ RegisterCreate(r)
        \/ RegisterCatch(r)
        \/ LoginUser(r)
        \/ Protect(r)
        \/ ProfileFindById(r)
        \/ ProfileUpdate(r)
        \/ ProfileCatch(r)
        \/ Finish(r)

SpecAccount == AccountInit /\ [][AccountNext]_vars

(* ------------- specification of the life cycle of the records --------- *)
\* the administrator, logged in; one request at a time
LifeInit == InitWith(SeedAdmin, {generateToken(1, 0)}, OneSlot)

\* the bodies PUT /profile is sent with: a phone number alone, a phone number
\* together with a secret and a role, or an empty body (then with a file)
ProfileBodies ==
    {[phone |-> 1], << >>, [phone |-> 1, password |-> 2, role |-> RoleAdmin]}

\* every route that creates, returns, updates or deletes a record
LifeBegin(r) ==
    \/ \E username \in {1, 2}, email \in Emails, hasFile \in BOOLEAN :
           BeginRequest(r, "register", NoCookie, hasFile,
                        [username |-> username, email |-> email, password |-> 1])
    \/ \E email \in Emails :
           BeginRequest(r, "login", NoCookie, FALSE,
                        [email |-> email, password |-> 1])
    \/ \E cookie \in issued :
           BeginRequest(r, "getallusers", cookie, FALSE, << >>)
    \/ \E cookie \in issued, id \in DOMAIN users :
           BeginRequest(r, "remove", cookie, FALSE, [id |-> id])
    \/ \E cookie \in issued, body \in ProfileBodies :
           BeginRequest(r, "profile", cookie, body = << >>, body)
    \/ \E cookie \in issued, hasFile \in BOOLEAN :
           BeginRequest(r, "createBlog", cookie, hasFile, << >>)
    \/ \E cookie \in issued, id \in 1..MaxBlogs :
           BeginRequest(r, "updateBlog", cookie, TRUE, [id |-> id])
    \/ \E cookie \in issued, id \in 1..MaxBlogs :
           BeginRequest(r, "deleteBlog", cookie, FALSE, [id |-> id])

LifeNext ==
    \E r \in OneSlot :
        \/ LifeBegin(r)
        \/ Protect(r)
        \/ CheckRole(r)
        \/ Upload(r)
        \/ RegisterFindOne(r)
        \/ RegisterCreate(r)
        \/ RegisterCatch(r)
        \/ LoginUser(r)
        \/ GetAllUsers(r)
        \/ RemoveFindById(r)
        \/ RemoveDelete(r)
        \/ ProfileFindById(r)
        \/ ProfileRemoveOld(r)
        \/ ProfileUpdate(r)
        \/ ProfileCatch(r)
        \/ CreateBlog(r)
        \/ CreateBlogCatch(r)
        \/ UpdateBlogFindById(r)
        \/ UpdateBlogRemoveOld(r)
        \/ UpdateBlogSave(r)
        \/ UpdateBlogCatch(r)
        \/ DeleteBlogFindById(r)
        \/ DeleteBlogRemoveImage(r)
        \/ DeleteBlogDelete(r)
        \/ Finish(r)

SpecLife == LifeInit /\ [][LifeNext]_vars

(* ------------ specification of file deletions that can fail ------------ *)
\* the administrator, logged in; one request at a time
FsInit == InitWith(SeedAdmin, {generateToken(1, 0)}, OneSlot)

\* the four routes that remove a file: register, PUT /profile, POST /api/blogs
\* and PUT /api/blogs/:id, each with a file
FsBegin(r) ==
    \/ \E email \in Emails :
           BeginRequest(r, "register", NoCookie, TRUE,
                        [username |-> email, email |-> email, password |-> 1])
    \/ \E cookie \in issued, username \in {0, 2} :
           BeginRequest(r, "profile", cookie, TRUE, [username |-> username])
    \/ \E cookie \in issued :
           BeginRequest(r, "createBlog", cookie, TRUE, << >>)
    \/ \E cookie \in issued, id \in 1..MaxBlogs :
           BeginRequest(r, "updateBlog", cookie, TRUE, [id |-> id])

FsNext ==
    \E r \in OneSlot :
        \/ FsBegin(r)
        \/ Protect(r)
        \/ CheckRole(r)
        \/ Upload(r)
        \/ RegisterFindOne(r)
        \/ RegisterCreate(r)
        \/ RegisterCatch(r)
        \/ ProfileFindById(r)
        \/ ProfileRemoveOld(r)
        \/ ProfileRemoveOldFails(r)
        \/ ProfileUpdate(r)
        \/ ProfileCatch(r)
        \/ CreateBlog(r)
        \/ CreateBlogCatch(r)
        \/ UpdateBlogFindById(r)
        \/ UpdateBlogRemoveOld(r)
        \/ UpdateBlogRemoveOldFails(r)
        \/ UpdateBlogSave(r)
        \/ UpdateBlogCatch(r)
        \/ CatchRemoveFails(r)
        \/ Abandon(r)
        \/ Finish(r)

SpecFs == FsInit /\ [][FsNext]_vars

(* ---------------- specification of the role-gated routes --------------- *)
\* an administrator, a plain user and a moderator, each logged in
RoleCheckInit ==
    InitWith(GateSeeds, {generateToken(id, 0) : id \in DOMAIN GateSeeds}, OneSlot)

\* GET /getallusers, DELETE /:id, POST /api/blogs and PUT /api/blogs/:id with
\* every cookie a client can send
RoleCheckBegin(r) ==
    \/ \E cookie \in Cookies :
           BeginRequest(r, "getallusers", cookie, FALSE, << >>)
    \/ \E cookie \in Cookies, id \in DOMAIN GateSeeds :
           BeginRequest(r, "remove", cookie, FALSE, [id |-> id])
    \/ \E cookie \in Cookies, hasFile \in BOOLEAN :
           BeginRequest(r, "createBlog", cookie, hasFile, << >>)
    \/ \E cookie \in Cookies, hasFile \in BOOLEAN, id \in 1..MaxBlogs :
           BeginRequest(r, "updateBlog", cookie, hasFile, [id |-> id])

RoleCheckNext ==
    \E r \in OneSlot :
        \/ RoleCheckBegin(r)
        \/ Protect(r)
        \/ CheckRole(r)
        \/ Upload(r)
        \/ GetAllUsers(r)
        \/ RemoveFindById(r)
        \/ RemoveDelete(r)
        \/ CreateBlog(r)
        \/ CreateBlogCatch(r)
        \/ UpdateBlogFindById(r)
        \/ UpdateBlogRemoveOld(r)
        \/ UpdateBlogSave(r)
        \/ UpdateBlogCatch(r)
        \/ Finish(r)

SpecRoleCheck == RoleCheckInit /\ [][RoleCheckNext]_vars

(* ------------------ specification of the role field -------------------- *)
\* the administrator; nobody is logged in; one request at a time
RoleFieldInit == InitWith(SeedAdmin, {}, OneSlot)

\* register, login, forgotpassword, resetpassword and PUT /profile; the
\* bodies of register and of PUT /profile carry a role or none
RoleFieldBegin(r) ==
    \/ \E role \in {<< >>, RoleAdmin, RoleModerator} :
           BeginRequest(r, "register", NoCookie, FALSE,
                        [username |-> 2, email |-> 2, password |-> 2,
                         role |-> role])
    \/ \E email \in Emails :
           BeginRequest(r, "login", NoCookie, FALSE,
                        [email |-> email, password |-> email])
    \/ \E email \in Emails :
           BeginRequest(r, "forgotpassword", NoCookie, FALSE, [email |-> email])
    \/ BeginRequest(r, "resetpassword", NoCookie, FALSE,
                    [token |-> 1, password |-> 1])
    \/ \E cookie \in issued, role \in {<< >>, RoleAdmin, RoleModerator} :
           BeginRequest(r, "profile", cookie, FALSE, [phone |-> 1, role |-> role])

RoleFieldNext ==
    \E r \in OneSlot :
        \/ Tick(1, MaxTime)
        \/ RoleFieldBegin(r)
        \/ Upload(r)
        \/ RegisterFindOne(r)
        \/ RegisterCreate(r)
        \/ RegisterCatch(r)
        \/ LoginUser(r)
        \/ ForgotFindOne(r, {1})
        \/ ForgotSave(r)
        \/ ResetFindOne(r)
        \/ ResetSave(r)
        \/ Protect(r)
        \/ ProfileFindById(r)
        \/ ProfileUpdate(r)
        \/ ProfileCatch(r)
        \/ Finish(r)

SpecRoleField == RoleFieldInit /\ [][RoleFieldNext]_vars

(* ------------------- specification of the sessions --------------------- *)
\* the administrator, logged in at time 0; two requests in flight
SessionInit == InitWith(SeedAdmin, {generateToken(1, 0)}, TwoSlots)

\* POST /logout, the password reset of the administrator, DELETE /:id of the
\* administrator, and GET /getallusers with the session token
SessionBegin(r) ==
    \/ \E cookie \in issued :
           BeginRequest(r, "logout", cookie, FALSE, << >>)
    \/ BeginRequest(r, "forgotpassword", NoCookie, FALSE, [email |-> 1])
    \/ BeginRequest(r, "resetpassword", NoCookie, FALSE,
                    [token |-> 1, password |-> 2])
    \/ \E cookie \in issued :
           BeginRequest(r, "remove", cookie, FALSE, [id |-> 1])
    \/ \E cookie \in issued :
           BeginRequest(r, "getallusers", cookie, FALSE, << >>)

SessionNext ==
    \E r \in TwoSlots :
        \/ Tick(12, MaxGateTime)
        \/ SessionBegin(r)
        \/ Logout(r)
        \/ ForgotFindOne(r, {1})
        \/ ForgotSave(r)
        \/ ResetFindOne(r)
        \/ ResetSave(r)
        \/ Protect(r)
        \/ CheckRole(r)
        \/ RemoveFindById(r)
        \/ RemoveDelete(r)
        \/ GetAllUsers(r)
        \/ Finish(r)

SpecSession == SessionInit /\ [][SessionNext]_vars

(* ------- specification of register on a server without JWT_SECRET ------ *)
\* the administrator is in the store; nobody can hold a token
NoSecretInit == InitWith(SeedAdmin, {}, TwoSlots)

\* POST /register, with and without a picture
NoSecretBegin(r) ==
    \E username \in {1, 2}, email \in Emails, hasFile \in BOOLEAN :
        BeginRequest(r, "register", NoCookie, hasFile,
                     [username |-> username, email |-> email, password |-> 1])

NoSecretNext ==
    \E r \in TwoSlots :
        \/ NoSecretBegin(r)
        \/ Upload(r)
        \/ RegisterFindOne(r)
        \/ RegisterCreateNoSecret(r)
        \/ RegisterCatch(r)
        \/ Finish(r)

SpecNoSecret == NoSecretInit /\ [][NoSecretNext]_vars

(* ------------------------- claims: the swap protocol ------------------- *)
\* the routes that replace the asset of an existing record
SwapRoutes == {"profile", "updateBlog"}

\* request r is an update that carries a new file and has read its record
IsSwap(r) ==
    /\ req[r].route \in SwapRoutes
    /\ req[r].file # NoFile
    /\ req[r].docId # 0

\* the asset the record targeted by request r references now
CurrentRef(r) ==
    IF req[r].route = "profile"
    THEN IF req[r].docId \in DOMAIN users
         THEN users[req[r].docId].profilePicture ELSE NoFile
    ELSE IF req[r].docId \in DOMAIN blogs
         THEN blogs[req[r].docId].image ELSE NoFile

\* request r is answered in this step
Completes(r) == req[r].pc \notin {"idle", "done"} /\ req'[r].pc = "done"

\* C1: when an update that carries a new file ends after its database write
\* failed (and no other request replaced the asset meanwhile), the new file
\* is absent from disk, the record still references the original asset and
\* the original file is still on disk.
C1_SwapUnderFailure ==
    [][\A r \in DOMAIN req :
        (/\ IsSwap(r) /\ Completes(r)
         /\ req[r].wrote = "failed"
         /\ CurrentRef(r) = req[r].docPic)
        => /\ req[r].file \notin disk'
           /\ CurrentRef(r)' = req[r].docPic
           /\ req[r].docPic \in disk']_vars

\* C2: there is no state in which the old file of a replacing update is gone
\* while the record still references it (the new reference is not persisted).
C2_OldDeletedOnlyAfterPersist ==
    \A r \in DOMAIN req :
        (IsSwap(r) /\ req[r].wrote # "ok" /\ CurrentRef(r) = req[r].docPic)
        => req[r].docPic \in disk

\* C3: an update that carries a new file and replaces a real file has, when it
\* is answered, removed exactly one of the old and the new file.
C3_ExactlyOneDeleted ==
    [][\A r \in DOMAIN req :
        (/\ IsSwap(r) /\ Completes(r)
         /\ req'[r].wrote \in {"ok", "failed"}
         /\ req[r].docPic # DefaultAvatar)
        => (req[r].docPic \notin disk') # (req[r].file \notin disk')]_vars

\* C4: at the step in which the database write of an update with a new file
\* succeeds, the record references the new file, the new file is on disk and
\* the old file is gone unless it is the placeholder.
C4_SwapOnSuccess ==
    [][\A r \in DOMAIN req :
        (IsSwap(r) /\ Completes(r) /\ req'[r].wrote = "ok")
        => /\ CurrentRef(r)' = req[r].file
           /\ req[r].file \in disk'
           /\ (req[r].docPic # DefaultAvatar => req[r].docPic \notin disk')]_vars

\* a profile or blog update has replaced a real file by its new file
C4_Witness ==
    \E r \in DOMAIN req :
        /\ IsSwap(r) /\ req[r].pc = "done" /\ req[r].wrote = "ok"
        /\ req[r].docPic # DefaultAvatar
        /\ CurrentRef(r) = req[r].file
        /\ req[r].file \in disk /\ req[r].docPic \notin disk

(* ------------------------- claims: the password reset ------------------ *)
\* request r is a resetPassword whose save succeeds in this step
ResetSucceeds(r) ==
    /\ req[r].route = "resetpassword"
    /\ req[r].pc = "reset.save"
    /\ req'[r].wrote = "ok"

\* C5: single use of the reset token: right after a resetPassword with token
\* T has succeeded, T opens no reset window of any principal, so that a
\* resetPassword with T made next fails with "Invalid or expired PIN".
C5_SingleUse ==
    [][\A r \in DOMAIN req :
        ResetSucceeds(r)
        => ~ \E i \in DOMAIN users' : ResetMatch(users'[i], req[r].token, now')]_vars

\* C6: of two resetPassword requests that carry the same token and have both
\* looked up the same principal before either saved, at most one succeeds:
\* once one of them has succeeded and consumed the credential, the save of
\* the other does not succeed.
C6_ConsumedOnceUnderConcurrency ==
    [][\A r, s \in DOMAIN req :
        (/\ r # s
         /\ req[r].route = "resetpassword" /\ req[s].route = "resetpassword"
         /\ req[r].token = req[s].token /\ req[r].docId = req[s].docId
         /\ req[r].pc = "reset.save"
         /\ req[s].pc = "done" /\ req[s].wrote = "ok"
         /\ req[r].docId \in DOMAIN users
         /\ users[req[r].docId].resetPasswordToken = 0)
        => req'[r].wrote # "ok"]_vars

\* some principal holds token, and no principal holds it with an expiry
\* strictly later than t
ExpiredAt(token, t) ==
    /\ \E i \in DOMAIN users : users[i].resetPasswordToken = token
    /\ \A i \in DOMAIN users :
          users[i].resetPasswordToken = token => users[i].resetPasswordExpire <= t

\* C7: a resetPassword whose token equals a stored token, but whose stored
\* expiry is not strictly later than the current time, is answered 400
\* "Invalid or expired PIN" by its lookup and changes nothing in the store
\* or on disk.
C7_ExpiredTokenFails ==
    [][\A r \in DOMAIN req :
        (/\ req[r].pc = "reset.findOne" /\ req'[r].pc # "reset.findOne"
         /\ ExpiredAt(req[r].token, now))
        => /\ req'[r].pc = "done"
           /\ req'[r].status = 400
           /\ req'[r].message = "Invalid or expired PIN"
           /\ users' = users /\ blogs' = blogs /\ disk' = disk]_vars

\* a resetPassword was refused at the very instant the window of its token ends
C7_Witness ==
    \E r \in DOMAIN req :
        /\ req[r].route = "resetpassword" /\ req[r].pc = "done"
        /\ req[r].status = 400 /\ req[r].message = "Invalid or expired PIN"
        /\ \E i \in DOMAIN users :
              /\ users[i].resetPasswordToken = req[r].token
              /\ users[i].resetPasswordExpire = now

\* C8: in every reachable state, each principal has resetPasswordToken and
\* resetPasswordExpire both set or both absent.
C8_ResetFieldsTogether ==
    \A i \in DOMAIN users :
        (users[i].resetPasswordToken = 0) <=> (users[i].resetPasswordExpire = 0)

\* C9: end-to-end reset: when a resetPassword with token T and secret s2
\* succeeds, every principal that forgotPassword had given T logs in with s2
\* and with no other secret.
C9_EndToEndReset ==
    [][\A r \in DOMAIN req :
        ResetSucceeds(r)
        => \A a \in DOMAIN users :
              users[a].resetPasswordToken = req[r].token
              => /\ LoginFind(users[a].email, req[r].password)' = a
                 /\ \A s1 \in Passwords \ {req[r].password} :
                       LoginFind(users[a].email, s1)' = 0]_vars

(* --------------------------- claims: the access gate ------------------- *)
\* the routes behind protect and checkRole
GatedRoutes == {"getallusers", "remove", "createBlog", "updateBlog", "deleteBlog"}

\* the roles each gated route is meant to admit
AllowSet(route) ==
    IF route \in {"getallusers", "remove"}
    THEN {RoleAdmin}
    ELSE {RoleAdmin, RoleModerator}

\* tok was signed by the server and its day has not elapsed at time t
TokenValid(tok, t) == tok \in issued /\ t < tok.iat + JwtExpiresIn

\* request r is answered with the given status in this step
Answers(r, status) == req'[r].pc = "done" /\ req'[r].status = status

\* C10: on a role-gated route, protect answers 401 when there is no cookie
\* and 401 when the token is tampered or expired, and lets the request on
\* otherwise; checkRole answers 403 when the role of the principal is outside
\* the allow-set of the route and runs the handler otherwise; a request is
\* past the gate only with a token the server signed and a role of the
\* allow-set.
C10_GateOutcome ==
    [][\A r \in DOMAIN req :
        req[r].route \in GatedRoutes
        => /\ (req[r].pc = "protect" /\ req'[r].pc # "protect")
              => IF req[r].cookie = NoCookie \/ ~TokenValid(req[r].cookie, now)
                 THEN Answers(r, 401)
                 ELSE req'[r].pc = "checkRole"
           /\ (req[r].pc = "checkRole" /\ req'[r].pc # "checkRole")
              => IF req[r].userRole \in AllowSet(req[r].route)
                 THEN req'[r].pc = AfterCheckRole(req[r].route)
                 ELSE Answers(r, 403)
           /\ req[r].pc \notin {"idle", "protect", "checkRole", "done"}
              => /\ req[r].cookie \in issued
                 /\ req[r].userRole \in AllowSet(req[r].route)]_vars

\* a plain user with a valid token was refused on a gated route
C10_Witness ==
    \E r \in DOMAIN req :
        /\ req[r].route \in GatedRoutes
        /\ req[r].pc = "done" /\ req[r].status = 403
        /\ req[r].cookie \in issued
        /\ req[r].userRole = RoleUser

(* ------------------------ claims: absent subject ----------------------- *)
\* the routes behind protect
ProtectedRoutes == GatedRoutes \cup {"profile"}

\* the positions of a request that lie before or after its route handler
OutsideHandler == {"idle", "protect", "checkRole", "upload", "done"}

\* request r executes a step of its route handler
HandlerStep(r) ==
    /\ req[r].route \in ProtectedRoutes
    /\ req[r].pc \notin OutsideHandler
    /\ req'[r] # req[r]

\* C11: on every protected route, PUT /profile included, the route handler
\* never executes a step for a request whose token is valid but whose subject
\* is no longer in the store (req.user is absent).
C11_AbsentSubjectNotHandled ==
    [][\A r \in DOMAIN req : HandlerStep(r) => req[r].userId # 0]_vars

(* --------------------------- claims: the accounts ---------------------- *)
\* request r, a register not yet answered, takes a step
RegisterStep(r) ==
    /\ req[r].route = "register"
    /\ req[r].pc # "done"
    /\ req'[r] # req[r]

\* the principals that hold the email
WithEmail(us, email) == {i \in DOMAIN us : us[i].email = email}

\* C12: a step of a register whose email is already in the store creates no
\* record and never answers 201; its lookup fails with "User already exists"
\* and its answer is 400.  This covers two registers of one email that both
\* looked up before either created: after any step of a register at most one
\* record holds its email.
C12_DuplicateEmailRejected ==
    [][\A r \in DOMAIN req :
        RegisterStep(r)
        => /\ Cardinality(WithEmail(users', req[r].email)) <= 1
           /\ WithEmail(users, req[r].email) # {}
              => /\ users' = users
                 /\ req'[r].status # 201
                 /\ req[r].pc = "register.findOne"
                    => req'[r].message = "User already exists"
                 /\ req'[r].pc = "done" => req'[r].status = 400]_vars

\* two registers of one email under different usernames both reached
\* User.create: one created the record, the other failed
C12_Witness ==
    \E r, s \in DOMAIN req :
        /\ r # s
        /\ req[r].route = "register" /\ req[s].route = "register"
        /\ req[r].email = req[s].email /\ req[r].username # req[s].username
        /\ req[r].pc = "done" /\ req[r].status = 201
        /\ req[s].pc = "done" /\ req[s].status = 400
        /\ req[s].message = "E11000 duplicate key error"
        /\ Cardinality(WithEmail(users, req[r].email)) = 1

\* C13: in every reachable state no two principals share a username and no
\* two share an email.
C13_UniqueNames ==
    \A i, j \in DOMAIN users :
        i # j => /\ users[i].username # users[j].username
                 /\ users[i].email # users[j].email

\* a profile update asked for the username of another principal and failed
C13_Witness ==
    \E r \in DOMAIN req :
        /\ req[r].route = "profile" /\ req[r].pc = "done"
        /\ req[r].status = 400
        /\ req[r].message = "E11000 duplicate key error"
        /\ \E i \in DOMAIN users \ {req[r].userId} :
              users[i].username = req[r].username

\* this step is a successful resetPassword or deleteUser
ResetOrDelete ==
    \E r \in DOMAIN req :
        /\ req[r].pc \in {"reset.save", "remove.delete"}
        /\ req'[r].wrote = "ok"

\* C14: a successful register(username, email, secret) makes login(email,
\* secret) succeed with the new principal; every step that is not a
\* successful resetPassword or deleteUser keeps every login that succeeds
\* succeeding with the same principal; and a login that finds its principal
\* answers 200 with it.
C14_RegisterThenLogin ==
    [][/\ \A r \in DOMAIN req :
             (req[r].pc = "register.create" /\ req'[r].status = 201)
             => /\ req'[r].docId \in DOMAIN users' \ DOMAIN users
                /\ LoginFind(req[r].email, req[r].password)' = req'[r].docId
       /\ ~ResetOrDelete
          => \A email \in Emails, secret \in Passwords :
                LoginFind(email, secret) # 0
                => LoginFind(email, secret)' = LoginFind(email, secret)
       /\ \A r \in DOMAIN req :
             (req[r].pc = "loginUser" /\ req'[r].pc = "done"
              /\ LoginFind(req[r].email, req[r].password) # 0)
             => /\ req'[r].status = 200
                /\ req'[r].docId = LoginFind(req[r].email, req[r].password)]_vars

\* a login with the credentials of a registered principal succeeded
C14_Witness ==
    \E r \in DOMAIN req :
        /\ req[r].route = "login" /\ req[r].pc = "done" /\ req[r].status = 200
        /\ req[r].docId \in DOMAIN users
        /\ users[req[r].docId].email = req[r].email
        /\ matchPassword(req[r].password, users[req[r].docId].password)

\* request r is a login that was refused
LoginRefused(r) ==
    /\ req[r].route = "login"
    /\ req[r].pc = "done"
    /\ req[r].status # 200

\* C15: any two refused logins, whatever the cause of the refusal (email not
\* in the store, or secret mismatch), carry the same status and the same
\* message.
C15_LoginErrorsIndistinguishable ==
    \A r, s \in DOMAIN req :
        (LoginRefused(r) /\ LoginRefused(s))
        => /\ req[r].status = req[s].status
           /\ req[r].message = req[s].message

\* one login was refused for an email that is not in the store, another for
\* a secret that does not match
C15_Witness ==
    \E r, s \in DOMAIN req :
        /\ LoginRefused(r) /\ LoginRefused(s)
        /\ WithEmail(users, req[r].email) = {}
        /\ \E i \in WithEmail(users, req[s].email) :
              ~matchPassword(req[s].password, users[i].password)

(* ------------------------ claims: the responses ------------------------ *)
\* the routes whose success response carries principals
PrincipalRoutes == {"register", "login", "getallusers", "profile"}

\* C16: no success response of register, login, getAllUsers or
\* updateUserProfile carries the secret of a principal: none of the returned
\* documents has a password field.
C16_NoSecretInResponses ==
    \A r \in DOMAIN req :
        (/\ req[r].route \in PrincipalRoutes
         /\ req[r].pc = "done"
         /\ req[r].status \in {200, 201})
        => \A doc \in req[r].json : "password" \notin DOMAIN doc

\* GET /getallusers has answered with the documents of the store
C16_Witness ==
    \E r \in DOMAIN req :
        /\ req[r].route = "getallusers" /\ req[r].pc = "done"
        /\ req[r].status = 200
        /\ req[r].json # {}
        /\ \A doc \in req[r].json : "username" \in DOMAIN doc

(* ------------------------ claims: profile updates ---------------------- *)
\* request r, a PUT /profile not yet answered, takes a step
ProfileStep(r) ==
    /\ req[r].route = "profile"
    /\ req[r].pc \notin {"idle", "done"}
    /\ req'[r] # req[r]

\* C17: no step of a profile update changes the role or the stored secret of
\* any principal, whatever the body carries (role and password included).
C17_ProfileKeepsRoleAndSecret ==
    [][\A r \in DOMAIN req :
        ProfileStep(r)
        => \A i \in DOMAIN users :
              /\ i \in DOMAIN users'
              /\ users'[i].role = users[i].role
              /\ users'[i].password = users[i].password]_vars

\* a plain user sent a role and a secret in the body of a profile update
\* that succeeded, and holds neither
C17_Witness ==
    \E r \in DOMAIN req :
        /\ req[r].route = "profile" /\ req[r].pc = "done" /\ req[r].status = 200
        /\ req[r].role = RoleAdmin /\ req[r].password # 0
        /\ req[r].userId \in DOMAIN users
        /\ users[req[r].userId].role = RoleUser
        /\ users[req[r].userId].password # req[r].password
        /\ ~matchPassword(req[r].password, users[req[r].userId].password)

\* C18: no step of a profile update that carries no file and no username
\* (a phone number only) changes the avatar reference of a principal or the
\* set of files on disk.
C18_PhoneOnlyUpdateTouchesNoFile ==
    [][\A r \in DOMAIN req :
        (ProfileStep(r) /\ ~req[r].hasFile /\ req[r].username = 0)
        => /\ disk' = disk
           /\ \A i \in DOMAIN users :
                 /\ i \in DOMAIN users'
                 /\ users'[i].profilePicture = users[i].profilePicture]_vars

\* a phone-only update succeeded for a principal whose avatar is an uploaded
\* file, which is still referenced and on disk
C18_Witness ==
    \E r \in DOMAIN req :
        /\ req[r].route = "profile" /\ req[r].pc = "done" /\ req[r].status = 200
        /\ ~req[r].hasFile /\ req[r].phone # 0 /\ req[r].password = 0
        /\ req[r].userId \in DOMAIN users
        /\ users[req[r].userId].phone = req[r].phone
        /\ users[req[r].userId].profilePicture \notin {DefaultAvatar, NoFile}
        /\ users[req[r].userId].profilePicture \in disk

(* ----------------------- claims: create and delete --------------------- *)
\* the routes that create a record owning the uploaded file
CreateRoutes == {"register", "createBlog"}

\* C19: when a register or createBlog that received a file is answered with
\* an error, the file it uploaded is no longer on disk.
C19_CreateCleanup ==
    [][\A r \in DOMAIN req :
        (/\ req[r].route \in CreateRoutes
         /\ req[r].file # NoFile
         /\ Completes(r)
         /\ req'[r].status # 201)
        => req[r].file \notin disk']_vars

\* a register that carried a file was refused and its file is gone
C19_Witness ==
    \E r \in DOMAIN req :
        /\ req[r].route = "register" /\ req[r].pc = "done"
        /\ req[r].status = 400
        /\ req[r].file # NoFile /\ req[r].file \notin disk

\* the routes that delete a record
DeleteRoutes == {"remove", "deleteBlog"}

\* the record request r is deleting is still in the store
RecordPresent(r) ==
    IF req[r].route = "remove"
    THEN req[r].docId \in DOMAIN users
    ELSE req[r].docId \in DOMAIN blogs

\* C20: a deletion (of a principal or of a blog) whose record references an
\* uploaded file removes that file only once the record is gone, and when it
\* is answered with success the file is gone.
C20_DeleteProtocol ==
    [][\A r \in DOMAIN req :
        (/\ req[r].route \in DeleteRoutes
         /\ req[r].docId # 0
         /\ req[r].docPic \notin {NoFile, DefaultAvatar}
         /\ req'[r] # req[r])
        => /\ (req[r].docPic \in disk /\ req[r].docPic \notin disk')
              => ~RecordPresent(r)
           /\ (Completes(r) /\ req'[r].wrote = "ok")
              => req[r].docPic \notin disk']_vars

(* -------------------- claims: files and records agree ------------------ *)
\* no request is in flight: every slot is free or answered
Quiescent == \A r \in DOMAIN req : req[r].pc \in {"idle", "done"}

\* the uploaded files the records of the store reference
Referenced ==
    {users[i].profilePicture : i \in DOMAIN users}
        \cup {blogs[b].image : b \in DOMAIN blogs}

\* C21: at every quiescent state, every record whose asset reference is not
\* the placeholder references a file that is on disk.
C21_ReferencedFilesExist ==
    Quiescent => \A f \in Referenced \ {DefaultAvatar, NoFile} : f \in disk

\* C22: at every quiescent state, every uploaded file on disk is the asset
\* reference of some record of the store.
C22_NoOrphanFile ==
    Quiescent => \A f \in disk \ {DefaultAvatar} : f \in Referenced

\* C23: the placeholder avatar is never deleted: it is on disk in every
\* reachable state, whatever the requests and whatever avatar the principal
\* that updates its profile references.
C23_PlaceholderKept == DefaultAvatar \in disk

\* a principal whose avatar was the placeholder has replaced it by an uploaded
\* file, and the placeholder is still on disk
C23_Witness ==
    \E r \in DOMAIN req :
        /\ req[r].route = "profile" /\ req[r].pc = "done" /\ req[r].wrote = "ok"
        /\ req[r].file # NoFile /\ req[r].docPic = DefaultAvatar
        /\ CurrentRef(r) = req[r].file
        /\ DefaultAvatar \in disk

(* -------------------- claims: deletions that fail ---------------------- *)
\* the routes whose handler removes an old or an orphaned file
RemovingRoutes == {"register", "profile", "createBlog", "updateBlog"}

\* C24: a request of register, updateProfile, createBlog or updateBlog in
\* which a file deletion failed is still answered, and its answer is the
\* outcome of its database operation: never the error of the deletion, and
\* never a request left without a response.
C24_DeletionFailureNotMasking ==
    \A r \in DOMAIN req :
        (req[r].route \in RemovingRoutes /\ req[r].removeFailed)
        => /\ req[r].pc # "hung"
           /\ req[r].pc = "done"
              => /\ req[r].message # "remove failed"
                 /\ req[r].status # 500

(* ---------------------- claims: forgotPassword ------------------------- *)
\* C25: a forgotPassword whose email no principal holds is answered 404
\* "User not found" by its lookup and leaves the store unchanged; otherwise
\* the expiry it computes is the current time plus one hour, and when it is
\* answered 200 the principal with that email holds the token the response
\* carries and that expiry, and nothing else of the store has changed.
C25_ForgotPassword ==
    [][\A r \in DOMAIN req :
        /\ (req[r].pc = "forgot.findOne" /\ req'[r] # req[r])
           => IF WithEmail(users, req[r].email) = {}
              THEN /\ Answers(r, 404)
                   /\ req'[r].message = "User not found"
                   /\ users' = users
              ELSE /\ req'[r].pc = "forgot.save"
                   /\ req'[r].docId \in WithEmail(users, req[r].email)
                   /\ req'[r].expire = now + ResetPasswordExpire
                   /\ users' = users
        /\ (req[r].pc = "forgot.save" /\ req'[r] # req[r])
           => IF Answers(r, 200)
              THEN /\ req'[r].json = {[pin |-> users'[req[r].docId].resetPasswordToken]}
                   /\ users' = [users EXCEPT
                                  ![req[r].docId].resetPasswordToken = req[r].pin,
                                  ![req[r].docId].resetPasswordExpire = req[r].expire]
              ELSE users' = users]_vars

\* a forgotPassword was answered 200 with the token its principal now holds,
\* which expires one hour from now
C25_Witness ==
    \E r \in DOMAIN req :
        /\ req[r].route = "forgotpassword" /\ req[r].pc = "done"
        /\ req[r].status = 200
        /\ req[r].docId \in WithEmail(users, req[r].email)
        /\ req[r].json = {[pin |-> users[req[r].docId].resetPasswordToken]}
        /\ users[req[r].docId].resetPasswordToken # 0
        /\ users[req[r].docId].resetPasswordExpire = now + ResetPasswordExpire

(* ------------------- claims: a resetPassword that fails ---------------- *)
\* principal i holds token with an expiry strictly later than t
OpenWindow(us, i, token, t) ==
    /\ us[i].resetPasswordToken = token
    /\ us[i].resetPasswordExpire > t

\* C26: a resetPassword whose token is wrong or expired (no principal holds
\* it with an expiry later than now) is answered 400 by its lookup and leaves
\* the secret, the reset token and the reset expiry of every principal
\* unchanged, so that every credential valid before is still valid after.
C26_FailedResetKeepsCredentials ==
    [][\A r \in DOMAIN req :
        (/\ req[r].route = "resetpassword"
         /\ req[r].pc = "reset.findOne" /\ req'[r] # req[r]
         /\ \A i \in DOMAIN users : ~OpenWindow(users, i, req[r].token, now))
        => /\ Answers(r, 400)
           /\ DOMAIN users' = DOMAIN users
           /\ \A i \in DOMAIN users :
                 /\ users'[i].password = users[i].password
                 /\ users'[i].resetPasswordToken = users[i].resetPasswordToken
                 /\ users'[i].resetPasswordExpire = users[i].resetPasswordExpire
                 /\ \A token \in Pins :
                       OpenWindow(users, i, token, now)
                       => OpenWindow(users', i, token, now')]_vars

\* a resetPassword with a wrong token was refused while a principal holds a
\* credential that is still valid
C26_Witness ==
    \E r \in DOMAIN req :
        /\ req[r].route = "resetpassword" /\ req[r].pc = "done"
        /\ req[r].status = 400 /\ req[r].message = "Invalid or expired PIN"
        /\ \E i \in DOMAIN users, token \in Pins \ {req[r].token} :
              OpenWindow(users, i, token, now)

(* --------------------- claims: the session token ----------------------- *)
\* C27: protect accepts a token the server signed only while less than one
\* day (24 hours) has passed since it was issued; from then on the request is
\* answered 401, although the browser still holds and sends the cookie, which
\* lives thirty days.
C27_TokenLifetime ==
    [][\A r \in DOMAIN req :
        (/\ req[r].pc = "protect" /\ req'[r] # req[r]
         /\ req[r].cookie \in issued
         /\ CookieHeld(req[r].cookie, now))
        => IF now < req[r].cookie.iat + 24
           THEN req'[r].pc = AfterProtect(req[r].route)
           ELSE Answers(r, 401)]_vars

\* a request was answered 401 with a token issued a day ago whose cookie the
\* browser still holds
C27_Witness ==
    \E r \in DOMAIN req :
        /\ req[r].pc = "done" /\ req[r].status = 401
        /\ req[r].cookie \in issued
        /\ now >= req[r].cookie.iat + 24
        /\ CookieHeld(req[r].cookie, now)

(* ----------------------- claims: the stored secret --------------------- *)
\* C28: the save of forgotPassword changes no stored secret, so every login
\* that succeeded before it succeeds after it; and the stored secret of a
\* principal is set or changed only by the creation of register and by a
\* successful save of resetPassword on that principal.
C28_SecretHashedOnce ==
    [][/\ \A r \in DOMAIN req :
             (req[r].pc = "forgot.save" /\ req'[r] # req[r])
             => /\ \A i \in DOMAIN users :
                      i \in DOMAIN users' /\ users'[i].password = users[i].password
                /\ \A email \in Emails, secret \in Passwords :
                      LoginFind(email, secret) # 0
                      => LoginFind(email, secret)' = LoginFind(email, secret)
       /\ \A i \in DOMAIN users' :
             (i \notin DOMAIN users \/ users'[i].password # users[i].password)
             => \E r \in DOMAIN req :
                   \/ /\ req[r].pc = "register.create"
                      /\ i \notin DOMAIN users /\ req'[r].docId = i
                   \/ /\ req[r].pc = "reset.save" /\ req'[r].wrote = "ok"
                      /\ req[r].docId = i]_vars

\* forgotPassword has stored a token on a principal created by register, and
\* the secret given at registration still logs that principal in
C28_Witness ==
    \E r \in DOMAIN req :
        /\ req[r].route = "forgotpassword" /\ req[r].pc = "done"
        /\ req[r].status = 200
        /\ req[r].docId \in DOMAIN users \ DOMAIN SeedAdmin
        /\ users[req[r].docId].resetPasswordToken = req[r].pin
        /\ \E secret \in Passwords :
              /\ users[req[r].docId].password = Hash(secret)
              /\ LoginFind(users[req[r].docId].email, secret) = req[r].docId

(* ------------------------- claims: deleteUser -------------------------- *)
\* C29: a deleteUser whose id no principal has is answered 404 "User not
\* found" by its lookup and changes nothing; a deleteUser that succeeds
\* removes exactly the principal with that id and leaves every other
\* principal and every blog, those of the deleted author included, as they
\* were; one that fails changes nothing.
C29_DeleteUser ==
    [][\A r \in DOMAIN req :
        /\ (req[r].pc = "remove.findById" /\ req'[r] # req[r]
            /\ req[r].id \notin DOMAIN users)
           => /\ Answers(r, 404)
              /\ req'[r].message = "User not found"
              /\ users' = users /\ blogs' = blogs /\ disk' = disk
        /\ (req[r].pc = "remove.delete" /\ req'[r] # req[r])
           => /\ blogs' = blogs
              /\ IF Answers(r, 200)
                 THEN /\ DOMAIN users' = DOMAIN users \ {req[r].id}
                      /\ \A i \in DOMAIN users' : users'[i] = users[i]
                 ELSE users' = users]_vars

\* a principal was deleted and the blog it wrote is still in the store
C29_Witness ==
    \E r \in DOMAIN req :
        /\ req[r].route = "remove" /\ req[r].pc = "done" /\ req[r].status = 200
        /\ req[r].id \notin DOMAIN users
        /\ DOMAIN users # {}
        /\ \E b \in DOMAIN blogs : blogs[b].author = req[r].id

(* ----------------- claims: updateProfile of a deleted principal -------- *)
\* C30: a profile update that got past the verification of its token and is
\* answered while the principal of the token is no longer in the store fails
\* with "User not found", whenever the deletion happened: before protect
\* looked the principal up, before the lookup of the handler, or before the
\* update of the store.
C30_DeletedPrincipalNotFound ==
    [][\A r \in DOMAIN req :
        (/\ req[r].route = "profile"
         /\ req[r].pc # "protect"
         /\ Completes(r)
         /\ req[r].cookie.id \notin DOMAIN users)
        => /\ req'[r].status \in {400, 404}
           /\ req'[r].message = "User not found"]_vars

(* ------------------------ claims: the role check ----------------------- *)
\* C31: checkRole fails closed: it lets a request on only when a principal
\* is attached to it and the role of that principal is in the allow-set of
\* the route; a request to which protect attached no principal is answered
\* 403 and none of its handler steps runs.
C31_RoleCheckFailsClosed ==
    [][\A r \in DOMAIN req :
        /\ (req[r].pc = "checkRole" /\ req'[r] # req[r])
           => IF req[r].userId # 0 /\ req[r].userRole \in AllowSet(req[r].route)
              THEN req'[r].pc = AfterCheckRole(req[r].route)
              ELSE /\ Answers(r, 403)
                   /\ users' = users /\ blogs' = blogs /\ disk' = disk
        /\ (req[r].route \in GatedRoutes /\ HandlerStep(r))
           => req[r].userId # 0]_vars

\* a request carrying the valid token of a deleted principal was answered 403
C31_Witness ==
    \E r \in DOMAIN req :
        /\ req[r].route \in GatedRoutes
        /\ req[r].pc = "done" /\ req[r].status = 403
        /\ req[r].cookie \in issued /\ JwtVerify(req[r].cookie, now)
        /\ req[r].cookie.id \notin DOMAIN users
        /\ req[r].userId = 0

\* the blog routes that take an upload
BlogUploadRoutes == {"createBlog", "updateBlog"}

\* C38: on POST /api/blogs and PUT /api/blogs/:id the upload step runs only
\* for a request that passed protect and checkRole (a token the server
\* signed, a principal attached, a role of the allow-set); protect and
\* checkRole store nothing, so a request answered 401 or 403 has stored no
\* file.
C38_UploadAfterGate ==
    [][\A r \in DOMAIN req :
        req[r].route \in BlogUploadRoutes
        => /\ (req[r].pc = "upload" /\ req'[r] # req[r])
              => /\ TokenValid(req[r].cookie, now)
                 /\ req[r].userId # 0
                 /\ req[r].userRole \in AllowSet(req[r].route)
           /\ (Completes(r) /\ req'[r].status \in {401, 403})
              => /\ req'[r].file = NoFile
                 /\ disk' = disk /\ nextFile' = nextFile]_vars

\* a plain user sent a file to a blog route and was answered 403; no file
\* was stored
C38_Witness ==
    \E r \in DOMAIN req :
        /\ req[r].route \in BlogUploadRoutes
        /\ req[r].pc = "done" /\ req[r].status = 403
        /\ req[r].hasFile /\ req[r].file = NoFile
        /\ req[r].userRole = RoleUser
        /\ disk = {DefaultAvatar}

\* checkRole(["admin"]): the allow-set given as a list
AdminList == [isString |-> FALSE, str |-> <<>>, arr |-> <<RoleAdmin>>]

\* C39: on GET /getallusers and DELETE /:id, where the allow-set is the
\* string "admin", checkRole lets a principal on exactly when its role is
\* admin, and for each of the roles user, moderator and admin its decision is
\* the decision of checkRole(["admin"]).
C39_StringAllowSet ==
    [][\A r \in DOMAIN req :
        (/\ req[r].route \in {"getallusers", "remove"}
         /\ req[r].pc = "checkRole" /\ req'[r] # req[r]
         /\ req[r].userId # 0)
        => /\ AllowedRoles(req[r].route).isString
           /\ req[r].userRole \in Roles
           /\ (req'[r].pc = AfterCheckRole(req[r].route))
                 <=> (req[r].userRole = RoleAdmin)
           /\ (req'[r].pc = AfterCheckRole(req[r].route))
                 <=> RoleAllowed(AdminList, req[r].userId, req[r].userRole)
           /\ req'[r].pc # AfterCheckRole(req[r].route) => Answers(r, 403)]_vars

\* a moderator was answered 403 on a route whose allow-set is the string
C39_Witness ==
    \E r \in DOMAIN req :
        /\ req[r].route \in {"getallusers", "remove"}
        /\ req[r].pc = "done" /\ req[r].status = 403
        /\ req[r].userId # 0 /\ req[r].userRole = RoleModerator

(* ------------------ claims: reset windows of principals ---------------- *)
\* C32: when a forgotPassword stores a new token on a principal whose reset
\* window is still open under a different token, a resetPassword with the
\* earlier token made next finds no principal (it fails with "Invalid or
\* expired PIN"), and one with the new token finds that principal until the
\* new expiry.
C32_FreshRequestOverwrites ==
    [][\A r \in DOMAIN req :
        (/\ req[r].pc = "forgot.save" /\ Answers(r, 200)
         /\ OpenWindow(users, req[r].docId, users[req[r].docId].resetPasswordToken, now)
         /\ users[req[r].docId].resetPasswordToken # req[r].pin)
        => /\ \A i \in DOMAIN users' :
                 ~ResetMatch(users'[i], users[req[r].docId].resetPasswordToken, now')
           /\ \A t \in now'..(req[r].expire - 1) :
                 ResetMatch(users'[req[r].docId], req[r].pin, t)]_vars

\* C34: a resetPassword that succeeds with token T leaves the secret of
\* every principal other than the one T was returned for unchanged: when T
\* opens the window of principal a, no other principal b has its secret
\* changed by that reset.
C34_ResetChangesOnlyItsPrincipal ==
    [][\A r \in DOMAIN req :
        ResetSucceeds(r)
        => \A a, b \in DOMAIN users :
              (a # b /\ OpenWindow(users, a, req[r].token, now))
              => users'[b].password = users[b].password]_vars

(* ------------------------ claims: the role field ----------------------- *)
\* C33: after every step the role of every principal is one of user,
\* moderator and admin; no step of register, login, forgotPassword,
\* resetPassword or updateProfile changes the role of a principal; and a
\* principal created by register has the role user, whatever role the body
\* of the request carries.
C33_RoleFixed ==
    [][/\ \A i \in DOMAIN users' : users'[i].role \in Roles
       /\ \A i \in DOMAIN users :
             i \in DOMAIN users' /\ users'[i].role = users[i].role
       /\ \A i \in DOMAIN users' \ DOMAIN users : users'[i].role = RoleUser]_vars

\* a principal created by register sent the role admin in the body of a
\* profile update that succeeded, and is still a plain user
C33_Witness ==
    \E r \in DOMAIN req :
        /\ req[r].route = "profile" /\ req[r].pc = "done" /\ req[r].status = 200
        /\ req[r].role = RoleAdmin
        /\ req[r].userId \in DOMAIN users \ DOMAIN SeedAdmin
        /\ users[req[r].userId].role = RoleUser

(* -------------------- claims: tokens are not revoked ------------------- *)
\* request s is a logout made with token tok, or a resetPassword of the
\* subject of tok, and has succeeded
RevokingDone(s, tok) ==
    /\ req[s].pc = "done"
    /\ \/ req[s].route = "logout" /\ req[s].cookie = tok /\ req[s].status = 200
       \/ /\ req[s].route = "resetpassword" /\ req[s].wrote = "ok"
          /\ req[s].docId = tok.id

\* C35: a token the server signed is still accepted by protect after a
\* logout made with it and after a successful resetPassword of its subject:
\* while less than one day (24 hours) has passed since it was issued and the
\* subject is in the store, protect attaches the subject and lets the request
\* on.
C35_TokensNotRevoked ==
    [][\A r, s \in DOMAIN req :
        (/\ r # s
         /\ req[r].pc = "protect" /\ req'[r] # req[r]
         /\ req[r].cookie \in issued
         /\ RevokingDone(s, req[r].cookie)
         /\ now < req[r].cookie.iat + 24
         /\ req[r].cookie.id \in DOMAIN users)
        => /\ req'[r].pc = AfterProtect(req[r].route)
           /\ req'[r].userId = req[r].cookie.id]_vars

\* half a day after it was issued, a token passed protect although a logout
\* made with it, or a password reset of its subject, had succeeded
C35_Witness ==
    \E r, s \in DOMAIN req :
        /\ r # s
        /\ RevokingDone(s, req[r].cookie)
        /\ req[r].route = "getallusers" /\ req[r].pc = "checkRole"
        /\ req[r].userId = req[r].cookie.id
        /\ now >= req[r].cookie.iat + 12

(* ---------------- claims: concurrent profile updates ------------------- *)
\* C36: when two profile updates of the same principal, each with a new
\* avatar file, have both read the same current avatar before either wrote,
\* and both have written, then exactly one of the two new files is on disk,
\* it is the one the record references, and the previous avatar file (when
\* it is not the placeholder) is gone.
C36_ConcurrentProfileUpdates ==
    [][\A r, s \in DOMAIN req :
        (/\ r # s
         /\ req[r].route = "profile" /\ req[s].route = "profile"
         /\ IsSwap(r) /\ IsSwap(s)
         /\ req[r].docId = req[s].docId /\ req[r].docPic = req[s].docPic
         /\ req[s].pc = "done" /\ req[s].wrote = "ok"
         /\ Completes(r) /\ req'[r].wrote = "ok")
        => /\ {req[r].file, req[s].file} \cap disk' = {CurrentRef(r)'}
           /\ req[r].docPic # DefaultAvatar => req[r].docPic \notin disk']_vars

(* ------------- claims: register and the uploaded avatar ---------------- *)
\* C37: a register request that has been answered and has created a record
\* has not deleted its uploaded file: the file the record it created
\* references is on disk, also when the token response could not be built.
C37_RegisterKeepsFileOfRecord ==
    \A r \in DOMAIN req :
        (/\ req[r].route = "register" /\ req[r].pc = "done"
         /\ req[r].wrote = "ok" /\ req[r].docId \in DOMAIN users)
        => /\ users[req[r].docId].profilePicture \in disk
           /\ req[r].file # NoFile => req[r].file \in disk

====
